---- MODULE Spec2Model ----
(***************************************************************************)
(* Campaign dispatch and engagement tracking of geek--/learn0.             *)
(*                                                                         *)
(*   campaigns/tasks.py   process_campaigns  (throttled dispatch tick)     *)
(*   campaigns/views.py   track_open, track_click, track_cta,              *)
(*                        track_submit_attempt, track_report,              *)
(*                        track_landing_view, _criticality_label           *)
(*   campaigns/signals.py sync_campaign_recipients                         *)
(*   campaigns/models.py  Campaign, CampaignRecipient, EmailEvent          *)
(*   auditing/models.py   AuditLog                                         *)
(*                                                                         *)
(* The database is the committed state (rows, auditLog, events).  Writes   *)
(* made inside `with transaction.atomic()` are held in the scheduler's     *)
(* txn buffer until the block exits; every other ORM call autocommits.     *)
(***************************************************************************)
EXTENDS Integers, Sequences, FiniteSets, Bags, TLC

\* ---------------------------------------------------------------- bounds
MaxTime == 1          \* timezone.now() ranges over 0..MaxTime
MaxOps == 3           \* process_campaigns invocations plus tracking requests per run
MaxThrottle == 2      \* campaign 1's throttle_per_minute ranges over 0..MaxThrottle
MaxWords == 3         \* a User-Agent header has at most MaxWords words

\* ---------------------------------------------------------------- fixture
Campaigns == {1, 2}
Rows == {1, 2, 3}                 \* primary keys of the CampaignRecipient rows at the start
Recipients == {1, 2}              \* Recipient primary keys
Scheds == {1, 2}                  \* workers able to run process_campaigns
Reqs == {1, 2}                    \* concurrent HTTP request handlers

\* CampaignRecipient.campaign: rows 1 and 2 belong to campaign 1, the rest to 2
CampaignOf(r) == IF r <= 2 THEN 1 ELSE 2

\* CampaignRecipient.recipient: row 3 pairs campaign 2 with the recipient of row 1
RecipientOf(r) == IF r <= 2 THEN r ELSE 1

\* CampaignRecipient.tracking_token (default=uuid.uuid4, unique): every row
\* ever created has a token of its own, written here as the number of its
\* primary key; BadToken matches no row.
BadToken == 0
\* the tokens requests carry: the token of row 1 and an unknown one
Tokens == {1, BadToken}

\* a nullable column holds <<>> (None) or <<v>>
NULL == <<>>
Some(v) == <<v>>
Val(x) == x[1]

Min(a, b) == IF a <= b THEN a ELSE b

\* CampaignRecipient.Status
PENDING == "pending"
SENT == "sent"
BOUNCED == "bounced"
FAILED == "failed"
Status == {PENDING, SENT, BOUNCED, FAILED}

\* what message.send(fail_silently=False) can do: return, raise a transport
\* error, or raise an error by which the transport signals a hard bounce
Outcomes == {"ok", "smtp_error", "hard_bounce"}

VARIABLES
    clock,      \* the last value timezone.now() returned
    campaign,   \* Campaign table: [Campaigns -> [start_at, end_at, throttle_per_minute]]
    rows,       \* CampaignRecipient table: [primary key -> row]
    auditLog,   \* AuditLog table: bag of [action, campaign_recipient_id, error]
    events,     \* EmailEvent table: bag of [recipient, event_type]
    sched,      \* per worker: position inside process_campaigns and its locals
    req,        \* per request handler: position inside the view and its locals
    lastId,     \* the last primary key the CampaignRecipient table issued
    hist        \* observations used by the properties (not program state)

vars == <<clock, campaign, rows, auditLog, events, sched, req, lastId, hist>>

\* operations begun so far: ticks, tracking requests, recipient-list edits
OpsDone == hist.ticks + hist.callbacks + hist.edits

\* timezone.now(): time never runs backwards; between two readings the clock
\* has moved by at most one unit
Now(t) == t \in {clock, clock + 1} /\ t <= MaxTime /\ clock' = t

\* a freshly created CampaignRecipient (the model's field defaults)
NewRow ==
    [status |-> PENDING, sent_at |-> NULL, opened_at |-> NULL,
     open_seen_at |-> NULL, clicked_at |-> NULL, click_count |-> 0,
     time_to_click_seconds |-> NULL,
     landing_viewed_at |-> NULL, landing_view_count |-> 0,
     cta_clicked_at |-> NULL, cta_click_count |-> 0,
     submit_attempt_at |-> NULL, submit_attempted |-> FALSE,
     reported_at |-> NULL, report_channel |-> "",
     time_to_report_seconds |-> NULL]

\* CampaignRecipient(campaign=..., recipient=...) as the table stores it
CreatedRow(c, rcp, token) ==
    [f \in DOMAIN NewRow \cup {"campaign", "recipient", "tracking_token"} |->
        CASE f = "campaign" -> c
          [] f = "recipient" -> rcp
          [] f = "tracking_token" -> token
          [] OTHER -> NewRow[f]]

\* QuerySet.update(**updates) / Model.save(update_fields=...): only the named
\* columns of the stored row are written (updates names columns of row)
ApplyUpdates(row, updates) == updates @@ row

\* ------------------------------------------------------------ dispatcher

\* the ascending sequence of the members of a finite set of numbers
RECURSIVE SortedSeq(_)
SortedSeq(S) ==
    IF S = {} THEN <<>>
    ELSE LET m == CHOOSE x \in S : \A y \in S : x <= y
         IN <<m>> \o SortedSeq(S \ {m})

\* every sequence of k distinct members of S
RECURSIVE Arrangements(_, _)
Arrangements(S, k) ==
    IF k = 0 THEN {<<>>}
    ELSE UNION {{<<x>> \o tl : tl \in Arrangements(S \ {x}, k - 1)} : x \in S}

\* Campaign.objects.filter(start_at__lte=now, end_at__gte=now)
InWindow(c, now) ==
    campaign[c].start_at <= now /\ campaign[c].end_at >= now

DueCampaigns(now) == SortedSeq({c \in Campaigns : InWindow(c, now)})

\* faulty variant: the status filter is missing
PendingRowsAnyStatus(c) == {r \in DOMAIN rows : rows[r].campaign = c}

\* campaign.recipients.filter(status=PENDING)
PendingRows(c) ==
    {r \in DOMAIN rows : rows[r].campaign = c /\ rows[r].status = PENDING}

\* faulty variant: the slice is missing
SliceLenUnthrottled(c, n) == n

\* the slice bound of [: campaign.throttle_per_minute]
SliceLen(c, n) == Min(campaign[c].throttle_per_minute, n)

\* list(...filter(status=PENDING)[: throttle_per_minute]): the query has no
\* ORDER BY, so the store may return any throttle_per_minute of the pending
\* rows, in any order
PendingSlices(c) ==
    Arrangements(PendingRows(c), SliceLen(c, Cardinality(PendingRows(c))))

\* faulty variant: sent_at is left out of update_fields
SentUpdateStatusOnly(now) == [status |-> SENT]

\* faulty variant: the save also writes back the click counter of the
\* object loaded when the slice was read
SentUpdateWritesCounter(now) ==
    [status |-> SENT, sent_at |-> Some(now), click_count |-> 0]

\* the columns written by save(update_fields=["status", "sent_at"])
SentUpdate(now) == [status |-> SENT, sent_at |-> Some(now)]

\* the column written by save(update_fields=["status"]) in the except branch
FailureUpdate(exc) == [status |-> BOUNCED]

AuditRow(action, r, error) ==
    [action |-> action, campaign_recipient_id |-> r, error |-> error]

IdleSched ==
    [pc |-> "idle", now |-> 0, todo |-> <<>>, pending |-> <<>>,
     txn |-> <<>>, exc |-> "", processed |-> 0,
     pend |-> [c \in Campaigns |-> {}], sel |-> [c \in Campaigns |-> {}],
     visited |-> {}, log |-> <<>>]

IdleReq == [pc |-> "idle", kind |-> "", cr |-> 0, obj |-> NewRow]

\* the worker pool gives an invocation to the first free worker, and the web
\* server a request to the first free handler
FirstIdleSched(s) == \A o \in Scheds : o < s => sched[o].pc # "idle"
FirstIdleReq(q) == \A o \in Reqs : o < q => req[o].pc # "idle"

\* process_campaigns, lines 14-16: now = timezone.now(); campaigns in window
StartTick(s) ==
    /\ sched[s].pc = "idle"
    /\ FirstIdleSched(s)
    /\ OpsDone < MaxOps
    /\ \E t \in 0..MaxTime :
        /\ Now(t)
        /\ sched' = [sched EXCEPT ![s] =
                        [IdleSched EXCEPT !.pc = "campaigns", !.now = t,
                                          !.todo = DueCampaigns(t)]]
    /\ hist' = [hist EXCEPT !.ticks = @ + 1]
    /\ UNCHANGED <<lastId, campaign, rows, auditLog, events, req>>

\* lines 17-22: the next campaign's pending slice is read
SelectPending(s) ==
    /\ sched[s].pc = "campaigns"
    /\ sched[s].todo # <<>>
    /\ LET c == Head(sched[s].todo) IN
       \E slice \in PendingSlices(c) :
          sched' = [sched EXCEPT ![s].pc = IF slice = <<>> THEN "campaigns"
                                                               ELSE "recipients",
                                 ![s].todo = IF slice = <<>> THEN Tail(@) ELSE @,
                                 ![s].pending = slice,
                                 ![s].visited = @ \cup {c},
                                 ![s].pend[c] = PendingRows(c),
                                 ![s].sel[c] = {slice[i] : i \in DOMAIN slice}]
    /\ UNCHANGED <<lastId, clock, campaign, rows, auditLog, events, req, hist>>

\* lines 23-26: enter the atomic block and call send_campaign_email, which
\* returns or raises
SendEmail(s) ==
    /\ sched[s].pc = "recipients"
    /\ LET r == Head(sched[s].pending) IN
       \E o \in Outcomes :
          /\ sched' = [sched EXCEPT ![s].pc = IF o = "ok" THEN "save" ELSE "except",
                                    ![s].exc = IF o = "ok" THEN "" ELSE o,
                                    ![s].log = Append(@, [cr |-> r, outcome |-> o])]
          /\ hist' = [hist EXCEPT !.attempts[r] = @ + 1]
    /\ UNCHANGED <<lastId, clock, campaign, rows, auditLog, events, req>>

\* faulty variant: no atomic block, the save autocommits
SaveSentAutocommit(s) ==
    /\ sched[s].pc = "save"
    /\ \E t \in 0..MaxTime :
        /\ Now(t)
        /\ rows' = [rows EXCEPT ![Head(sched[s].pending)] =
                        ApplyUpdates(@, SentUpdate(t))]
    /\ sched' = [sched EXCEPT ![s].pc = "audit"]
    /\ UNCHANGED <<lastId, campaign, auditLog, events, req, hist>>

\* lines 27-29: status and sent_at are written inside the transaction
SaveSent(s) ==
    /\ sched[s].pc = "save"
    /\ \E t \in 0..MaxTime :
        /\ Now(t)
        /\ sched' = [sched EXCEPT ![s].pc = "audit",
                                  ![s].txn = <<SentUpdate(t)>>]
    /\ UNCHANGED <<lastId, campaign, rows, auditLog, events, req, hist>>

\* a row after the transaction's buffered updates are committed
Committed(row, txn) == IF txn = <<>> THEN row ELSE ApplyUpdates(row, txn[1])

\* the loop of line 17 and the loop of line 23: after a recipient the worker
\* is at the next recipient of the slice or, the slice exhausted, at the next
\* campaign
NextPc(pending) == IF Tail(pending) = <<>> THEN "campaigns" ELSE "recipients"
NextTodo(todo, pending) == IF Tail(pending) = <<>> THEN Tail(todo) ELSE todo

\* lines 30-39: the "sent" audit row is created inside the transaction and the
\* atomic block is left: the buffered row update and the audit row become
\* visible together
CommitSent(s) ==
    /\ sched[s].pc = "audit"
    /\ LET r == Head(sched[s].pending) IN
        /\ rows' = [rows EXCEPT ![r] = Committed(@, sched[s].txn)]
        /\ auditLog' = auditLog (+) SetToBag({AuditRow("campaign_email_sent", r, "")})
    /\ sched' = [sched EXCEPT ![s].pc = NextPc(sched[s].pending),
                              ![s].todo = NextTodo(@, sched[s].pending),
                              ![s].pending = Tail(@),
                              ![s].txn = <<>>,
                              ![s].processed = @ + 1]
    /\ UNCHANGED <<lastId, clock, campaign, events, req, hist>>

\* lines 40-42: the except branch stores the failure status (autocommit)
SaveBounced(s) ==
    /\ sched[s].pc = "except"
    /\ LET r == Head(sched[s].pending) IN
        rows' = [rows EXCEPT ![r] = ApplyUpdates(@, FailureUpdate(sched[s].exc))]
    /\ sched' = [sched EXCEPT ![s].pc = "auditfail"]
    /\ UNCHANGED <<lastId, clock, campaign, auditLog, events, req, hist>>

\* faulty variant: the handler ends the batch after recording the failure
AuditFailedAborts(s) ==
    /\ sched[s].pc = "auditfail"
    /\ auditLog' = auditLog (+) SetToBag(
          {AuditRow("campaign_email_failed", Head(sched[s].pending), sched[s].exc)})
    /\ sched' = [sched EXCEPT ![s].pc = "campaigns", ![s].todo = <<>>,
                              ![s].pending = <<>>, ![s].exc = ""]
    /\ UNCHANGED <<lastId, clock, campaign, rows, events, req, hist>>

\* lines 43-52: the "failed" audit row with str(exc); the loop goes on
AuditFailed(s) ==
    /\ sched[s].pc = "auditfail"
    /\ auditLog' = auditLog (+) SetToBag(
          {AuditRow("campaign_email_failed", Head(sched[s].pending), sched[s].exc)})
    /\ sched' = [sched EXCEPT ![s].pc = NextPc(sched[s].pending),
                              ![s].todo = NextTodo(@, sched[s].pending),
                              ![s].pending = Tail(@),
                              ![s].exc = ""]
    /\ UNCHANGED <<lastId, clock, campaign, rows, events, req, hist>>

\* line 53: return processed
FinishTick(s) ==
    /\ sched[s].pc = "campaigns"
    /\ sched[s].todo = <<>>
    /\ sched' = [sched EXCEPT ![s] = IdleSched]
    /\ UNCHANGED <<lastId, clock, campaign, rows, auditLog, events, req, hist>>

\* the worker process dies; an open transaction is rolled back by the store
Crash(s) ==
    /\ sched[s].pc # "idle"
    /\ sched' = [sched EXCEPT ![s] = IdleSched]
    /\ UNCHANGED <<lastId, clock, campaign, rows, auditLog, events, req, hist>>

\* ------------------------------------------------------ tracking callbacks

\* EmailEvent.EventType
EventKinds ==
    {"open", "click", "landing_view", "cta_click", "submit_attempt", "report"}

\* the callbacks the email itself triggers: the pixel load and the link click
MailKinds == {"open", "click"}

\* request.GET.get("channel", "other") of track_report
Channels == {"other"}

\* track_open, lines 85-91: the updates dict built from the object read at
\* line 78 and from now
OpenUpdates(obj, now) ==
    IF obj.opened_at = NULL
    THEN [open_seen_at |-> Some(now), opened_at |-> Some(now)]
    ELSE [open_seen_at |-> Some(now)]

\* faulty variant: the latency is computed even when sent_at is None (as 0)
ClickUpdatesAlwaysLatency(obj, now) ==
    IF obj.clicked_at = NULL
    THEN [click_count |-> obj.click_count + 1, clicked_at |-> Some(now),
          time_to_click_seconds |->
              Some(now - (IF obj.sent_at # NULL THEN Val(obj.sent_at) ELSE 0))]
    ELSE [click_count |-> obj.click_count + 1]

\* faulty variant: clicked_at and the latency are written by every click
ClickUpdatesOverwrite(obj, now) ==
    IF obj.sent_at # NULL
    THEN [click_count |-> obj.click_count + 1, clicked_at |-> Some(now),
          time_to_click_seconds |-> Some(now - Val(obj.sent_at))]
    ELSE [click_count |-> obj.click_count + 1, clicked_at |-> Some(now)]

\* track_click, lines 106-111
ClickUpdates(obj, now) ==
    IF obj.clicked_at = NULL
    THEN IF obj.sent_at # NULL
         THEN [click_count |-> obj.click_count + 1, clicked_at |-> Some(now),
               time_to_click_seconds |-> Some(now - Val(obj.sent_at))]
         ELSE [click_count |-> obj.click_count + 1, clicked_at |-> Some(now)]
    ELSE [click_count |-> obj.click_count + 1]

\* faulty variant: the first cta click only stamps the time
CtaUpdatesStampFirst(obj, now) ==
    IF obj.cta_clicked_at = NULL
    THEN [cta_clicked_at |-> Some(now)]
    ELSE [cta_click_count |-> obj.cta_click_count + 1]

\* track_cta, lines 129-131
CtaUpdates(obj, now) ==
    IF obj.cta_clicked_at = NULL
    THEN [cta_click_count |-> obj.cta_click_count + 1,
          cta_clicked_at |-> Some(now)]
    ELSE [cta_click_count |-> obj.cta_click_count + 1]

\* track_submit_attempt, lines 150-152
SubmitUpdates(obj, now) ==
    IF obj.submit_attempt_at = NULL
    THEN [submit_attempted |-> TRUE, submit_attempt_at |-> Some(now)]
    ELSE [submit_attempted |-> TRUE]

\* track_report, lines 179-183
ReportUpdates(obj, now, channel) ==
    IF obj.reported_at = NULL
    THEN IF obj.sent_at # NULL
         THEN [report_channel |-> channel, reported_at |-> Some(now),
               time_to_report_seconds |-> Some(now - Val(obj.sent_at))]
         ELSE [report_channel |-> channel, reported_at |-> Some(now)]
    ELSE [report_channel |-> channel]

\* track_landing_view, lines 223-225
LandingUpdates(obj, now) ==
    IF obj.landing_viewed_at = NULL
    THEN [landing_view_count |-> obj.landing_view_count + 1,
          landing_viewed_at |-> Some(now)]
    ELSE [landing_view_count |-> obj.landing_view_count + 1]

\* one served request of type kind on row pk, for the properties
Served(pk, kind) == SetToBag({[recipient |-> pk, event_type |-> kind]})

\* CampaignRecipient rows with tracking_token=token (the column is unique)
Matching(token) == {pk \in DOMAIN rows : rows[pk].tracking_token = token}

\* CampaignRecipient.objects.filter(pk=...).update(**updates): writes the
\* named columns of the row with that key, if the table still has it
UpdateRow(pk, updates) ==
    IF pk \in DOMAIN rows
    THEN [rows EXCEPT ![pk] = ApplyUpdates(@, updates)]
    ELSE rows

\* faulty variant: the event is stored before the token is looked up
TrackLookupLogsFirst(q, kind, token) ==
    /\ req[q].pc = "idle"
    /\ FirstIdleReq(q)
    /\ OpsDone < MaxOps
    /\ events' = events (+) SetToBag({[recipient |-> token, event_type |-> kind]})
    /\ IF Matching(token) # {}
       THEN /\ \E pk \in Matching(token) :
                 req' = [req EXCEPT ![q] = [pc |-> "update", kind |-> kind,
                                            cr |-> pk, obj |-> rows[pk]]]
            /\ hist' = [hist EXCEPT !.callbacks = @ + 1]
       ELSE /\ UNCHANGED req
            /\ hist' = [hist EXCEPT !.callbacks = @ + 1, !.notFound = @ + 1]
    /\ UNCHANGED <<lastId, clock, campaign, rows, auditLog, sched>>

\* faulty variant: a repeat of an event the row already has is not stored
TrackLookupOncePerKind(q, kind, token) ==
    /\ req[q].pc = "idle"
    /\ FirstIdleReq(q)
    /\ OpsDone < MaxOps
    /\ IF Matching(token) # {}
       THEN /\ \E pk \in Matching(token) :
                 /\ req' = [req EXCEPT ![q] = [pc |-> "update", kind |-> kind,
                                               cr |-> pk, obj |-> rows[pk]]]
                 /\ events' = events (+)
                       (SetToBag({[recipient |-> pk, event_type |-> kind]})
                           (-) events)
            /\ hist' = [hist EXCEPT !.callbacks = @ + 1]
       ELSE /\ UNCHANGED <<req, events>>
            /\ hist' = [hist EXCEPT !.callbacks = @ + 1, !.notFound = @ + 1]
    /\ UNCHANGED <<lastId, clock, campaign, rows, auditLog, sched>>

\* faulty variant: the event is not stored before the update
TrackLookupNoEvent(q, kind, token) ==
    /\ req[q].pc = "idle"
    /\ FirstIdleReq(q)
    /\ OpsDone < MaxOps
    /\ IF Matching(token) # {}
       THEN /\ \E pk \in Matching(token) :
                 req' = [req EXCEPT ![q] = [pc |-> "update", kind |-> kind,
                                            cr |-> pk, obj |-> rows[pk]]]
            /\ hist' = [hist EXCEPT !.callbacks = @ + 1]
       ELSE /\ UNCHANGED req
            /\ hist' = [hist EXCEPT !.callbacks = @ + 1, !.notFound = @ + 1]
    /\ UNCHANGED <<lastId, clock, campaign, rows, auditLog, events, sched>>

\* the first two statements of every tracking view (track_open 78-84,
\* track_click 100-105, track_cta 122-127, track_submit_attempt 143-148,
\* track_report 169-177, track_landing_view 216-221):
\* get_object_or_404(CampaignRecipient, tracking_token=token) ends the request
\* with a 404 when no row has the token; else the row is read into the view
\* and EmailEvent.objects.create(recipient=..., event_type=...) adds the event
TrackLookup(q, kind, token) ==
    /\ req[q].pc = "idle"
    /\ FirstIdleReq(q)
    /\ OpsDone < MaxOps
    /\ IF Matching(token) # {}
       THEN /\ \E pk \in Matching(token) :
                 /\ req' = [req EXCEPT ![q] = [pc |-> "update", kind |-> kind,
                                               cr |-> pk, obj |-> rows[pk]]]
                 /\ events' = events (+) SetToBag(
                       {[recipient |-> pk, event_type |-> kind]})
            /\ hist' = [hist EXCEPT !.callbacks = @ + 1]
       ELSE /\ UNCHANGED <<req, events>>
            /\ hist' = [hist EXCEPT !.callbacks = @ + 1, !.notFound = @ + 1]
    /\ UNCHANGED <<lastId, clock, campaign, rows, auditLog, sched>>

\* track_open, lines 85-95: now, the updates, the queryset update, the response
TrackOpenUpdate(q) ==
    /\ req[q].pc = "update"
    /\ req[q].kind = "open"
    /\ \E t \in 0..MaxTime :
        /\ Now(t)
        /\ rows' = UpdateRow(req[q].cr, OpenUpdates(req[q].obj, t))
    /\ req' = [req EXCEPT ![q] = IdleReq]
    /\ hist' = [hist EXCEPT !.done = @ (+) Served(req[q].cr, "open")]
    /\ UNCHANGED <<lastId, campaign, auditLog, events, sched>>

\* track_click, lines 106-117
TrackClickUpdate(q) ==
    /\ req[q].pc = "update"
    /\ req[q].kind = "click"
    /\ \E t \in 0..MaxTime :
        /\ Now(t)
        /\ rows' = UpdateRow(req[q].cr, ClickUpdates(req[q].obj, t))
    /\ req' = [req EXCEPT ![q] = IdleReq]
    /\ hist' = [hist EXCEPT !.done = @ (+) Served(req[q].cr, "click")]
    /\ UNCHANGED <<lastId, campaign, auditLog, events, sched>>

\* track_cta, lines 128-137
TrackCtaUpdate(q) ==
    /\ req[q].pc = "update"
    /\ req[q].kind = "cta_click"
    /\ \E t \in 0..MaxTime :
        /\ Now(t)
        /\ rows' = UpdateRow(req[q].cr, CtaUpdates(req[q].obj, t))
    /\ req' = [req EXCEPT ![q] = IdleReq]
    /\ hist' = [hist EXCEPT !.done = @ (+) Served(req[q].cr, "cta_click")]
    /\ UNCHANGED <<lastId, campaign, auditLog, events, sched>>

\* track_submit_attempt, lines 149-164
TrackSubmitUpdate(q) ==
    /\ req[q].pc = "update"
    /\ req[q].kind = "submit_attempt"
    /\ \E t \in 0..MaxTime :
        /\ Now(t)
        /\ rows' = UpdateRow(req[q].cr, SubmitUpdates(req[q].obj, t))
    /\ req' = [req EXCEPT ![q] = IdleReq]
    /\ hist' = [hist EXCEPT !.done = @ (+) Served(req[q].cr, "submit_attempt")]
    /\ UNCHANGED <<lastId, campaign, auditLog, events, sched>>

\* track_report, lines 170 and 178-185
TrackReportUpdate(q) ==
    /\ req[q].pc = "update"
    /\ req[q].kind = "report"
    /\ \E t \in 0..MaxTime, channel \in Channels :
        /\ Now(t)
        /\ rows' = UpdateRow(req[q].cr, ReportUpdates(req[q].obj, t, channel))
    /\ req' = [req EXCEPT ![q] = IdleReq]
    /\ hist' = [hist EXCEPT !.done = @ (+) Served(req[q].cr, "report")]
    /\ UNCHANGED <<lastId, campaign, auditLog, events, sched>>

\* track_landing_view, lines 222-229
TrackLandingUpdate(q) ==
    /\ req[q].pc = "update"
    /\ req[q].kind = "landing_view"
    /\ \E t \in 0..MaxTime :
        /\ Now(t)
        /\ rows' = UpdateRow(req[q].cr, LandingUpdates(req[q].obj, t))
    /\ req' = [req EXCEPT ![q] = IdleReq]
    /\ hist' = [hist EXCEPT !.done = @ (+) Served(req[q].cr, "landing_view")]
    /\ UNCHANGED <<lastId, campaign, auditLog, events, sched>>

\* ------------------------------------------------------------ specifications

\* the campaigns an operator has created: campaign 1 (rows 1 and 2) runs from
\* 0 to 1 with any throttle, campaign 2 (row 3) from 1 to MaxTime with
\* throttle 1
CampaignFixtures ==
    {[c \in Campaigns |->
        IF c = 1
        THEN [start_at |-> 0, end_at |-> 1, throttle_per_minute |-> n]
        ELSE [start_at |-> 1, end_at |-> MaxTime, throttle_per_minute |-> 1]] :
     n \in 0..MaxThrottle}

\* nothing has run yet; the rows of the fixture have been issued their tokens
InitHist ==
    [ticks |-> 0, callbacks |-> 0, edits |-> 0, notFound |-> 0, rejected |-> 0,
     aborted |-> 0,
     attempts |-> [r \in Rows |-> 0],
     done |-> EmptyBag,
     issued |-> [pair \in Campaigns \X Recipients |->
                   {r \in Rows : <<CampaignOf(r), RecipientOf(r)>> = pair}]]

Init ==
    /\ clock = 0
    /\ campaign \in CampaignFixtures
    /\ rows = [r \in Rows |-> CreatedRow(CampaignOf(r), RecipientOf(r), r)]
    /\ auditLog = EmptyBag
    /\ events = EmptyBag
    /\ sched = [s \in Scheds |-> IdleSched]
    /\ req = [q \in Reqs |-> IdleReq]
    /\ lastId = 3
    /\ hist = InitHist

Dispatch(s) ==
    \/ StartTick(s)
    \/ SelectPending(s)
    \/ SendEmail(s)
    \/ SaveSent(s)
    \/ CommitSent(s)
    \/ SaveBounced(s)
    \/ AuditFailed(s)
    \/ FinishTick(s)

\* the requests a delivered email produces: pixel loads and link clicks that
\* carry the token of row 1
Callback(q) ==
    \/ \E kind \in MailKinds : TrackLookup(q, kind, 1)
    \/ TrackOpenUpdate(q)
    \/ TrackClickUpdate(q)

\* the deployment the design describes: process_campaigns runs as a single
\* periodic job (worker 1), whose process may die, while tracking callbacks
\* arrive concurrently
Next ==
    \/ Dispatch(1)
    \/ Crash(1)
    \/ \E q \in Reqs : Callback(q)

Spec == Init /\ [][Next]_vars

\* the same with every tick running to its return
NextTicks ==
    \/ Dispatch(1)
    \/ \E q \in Reqs : Callback(q)

SpecTicks == Init /\ [][NextTicks]_vars

\* process_campaigns invoked while an earlier invocation is still running
\* (two workers, each tick running to its return)
NextOverlap ==
    \E s \in Scheds : Dispatch(s)

SpecOverlap == Init /\ [][NextOverlap]_vars

\* every tracking view
AnyCallback(q) ==
    \/ \E kind \in EventKinds, token \in Tokens : TrackLookup(q, kind, token)
    \/ TrackOpenUpdate(q)
    \/ TrackClickUpdate(q)
    \/ TrackCtaUpdate(q)
    \/ TrackSubmitUpdate(q)
    \/ TrackReportUpdate(q)
    \/ TrackLandingUpdate(q)

\* the tracking views on their own, from a state in which process_campaigns
\* has either not yet reached row 1 or has delivered it at time 0
InitTrack ==
    /\ clock = 0
    /\ campaign \in {f \in CampaignFixtures : f[1].throttle_per_minute = 1}
    /\ \E first \in {NewRow, ApplyUpdates(NewRow, SentUpdate(0))} :
         rows = [r \in Rows |->
                    ApplyUpdates(CreatedRow(CampaignOf(r), RecipientOf(r), r),
                                 IF r = 1 THEN first ELSE NewRow)]
    /\ auditLog = EmptyBag
    /\ events = EmptyBag
    /\ sched = [s \in Scheds |-> IdleSched]
    /\ req = [q \in Reqs |-> IdleReq]
    /\ lastId = 3
    /\ hist = InitHist

\* the request's process dies, or the connection to the store is lost,
\* after the event was stored and before the update: both statements
\* autocommit, so the event stays and the update never happens
AbortCallback(q) ==
    /\ req[q].pc = "update"
    /\ req' = [req EXCEPT ![q] = IdleReq]
    /\ hist' = [hist EXCEPT !.aborted = @ + 1]
    /\ UNCHANGED <<lastId, clock, campaign, rows, auditLog, events, sched>>

\* concurrent tracking requests, any of which may be cut short
NextTrackAbort ==
    \E q \in Reqs : AnyCallback(q) \/ AbortCallback(q)

SpecTrackAbort == InitTrack /\ [][NextTrackAbort]_vars

\* concurrent tracking requests
NextTrack ==
    \E q \in Reqs : AnyCallback(q)

SpecTrack == InitTrack /\ [][NextTrack]_vars

\* tracking requests served one after another
NextTrackSeq ==
    AnyCallback(1)

SpecTrackSeq == InitTrack /\ [][NextTrackSeq]_vars

\* --------------------------------------------------------- recipient lists

\* faulty variant: the table has no unique constraint on the pair
ConflictsNever(table, c, rcp) == FALSE

\* unique_together = ("campaign", "recipient"): the table already has a row
\* for the pair
Conflicts(table, c, rcp) ==
    \E pk \in DOMAIN table :
        table[pk].campaign = c /\ table[pk].recipient = rcp

\* the table with one more row, keyed id
Inserted(table, id, row) ==
    [pk \in DOMAIN table \cup {id} |-> IF pk = id THEN row ELSE table[pk]]

\* the first token each pair was given, for the properties
Issue(issued, c, rcp, token) ==
    [issued EXCEPT ![<<c, rcp>>] = IF @ = {} THEN {token} ELSE @]

\* CampaignRecipient.objects.create(campaign=c, recipient=rcp), as in
\* test_campaign_recipient_unique: the insert raises IntegrityError when the
\* pair has a row, else stores a row with a new key and a new token
CreateRecipient(c, rcp) ==
    /\ OpsDone < MaxOps
    /\ IF Conflicts(rows, c, rcp)
       THEN /\ hist' = [hist EXCEPT !.edits = @ + 1, !.rejected = @ + 1]
            /\ UNCHANGED <<rows, lastId>>
       ELSE /\ rows' = Inserted(rows, lastId + 1, CreatedRow(c, rcp, lastId + 1))
            /\ lastId' = lastId + 1
            /\ hist' = [hist EXCEPT !.edits = @ + 1,
                                    !.issued = Issue(@, c, rcp, lastId + 1)]
    /\ UNCHANGED <<clock, campaign, auditLog, events, sched, req>>

\* bulk_create(to_create, ignore_conflicts=True), line 23: the objects are
\* inserted in list order, each one skipped when its pair has a row
RECURSIVE BulkCreate(_, _, _, _)
BulkCreate(table, c, ids, last) ==
    IF ids = <<>> THEN [table |-> table, last |-> last]
    ELSE IF Conflicts(table, c, Head(ids))
         THEN BulkCreate(table, c, Tail(ids), last)
         ELSE BulkCreate(Inserted(table, last + 1,
                                  CreatedRow(c, Head(ids), last + 1)),
                         c, Tail(ids), last + 1)

\* on_delete=models.CASCADE of EmailEvent.recipient: the events of the rows
\* that are left
EventsKept(kept) ==
    LET left == {e \in BagToSet(events) : e.recipient \in kept}
    IN [e \in left |-> events[e]]

\* sync_campaign_recipients(instance=c, action in post_add/post_remove/
\* post_clear), lines 12-23, where recipient_ids lists the recipients that
\* carry one of the campaign's tags after the change: the rows of c for other
\* recipients are deleted, with their events, and the listed recipients
\* without a row get one
SyncCampaignRecipients(c, recipient_ids) ==
    /\ OpsDone < MaxOps
    /\ LET listed == {recipient_ids[i] : i \in DOMAIN recipient_ids}
           kept == {pk \in DOMAIN rows :
                       rows[pk].campaign # c \/ rows[pk].recipient \in listed}
           after == BulkCreate([pk \in kept |-> rows[pk]], c, recipient_ids,
                               lastId)
           made == DOMAIN after.table \ kept
       IN /\ rows' = after.table
          /\ lastId' = after.last
          /\ events' = EventsKept(kept)
          /\ hist' = [hist EXCEPT
                !.edits = @ + 1,
                !.issued = [pair \in DOMAIN @ |->
                    IF @[pair] = {}
                    THEN {after.table[pk].tracking_token : pk \in
                            {m \in made : <<after.table[m].campaign,
                                            after.table[m].recipient>> = pair}}
                    ELSE @[pair]]]
    /\ UNCHANGED <<clock, campaign, auditLog, sched, req>>

\* every value list(recipients.values_list("id", flat=True)) can have
RecipientLists ==
    UNION {Arrangements(S, Cardinality(S)) : S \in SUBSET Recipients}

InitSync ==
    /\ Init
    /\ campaign[1].throttle_per_minute = 1

\* recipient lists edited while tracking requests arrive
NextSync ==
    \/ \E c \in Campaigns, rcp \in Recipients : CreateRecipient(c, rcp)
    \/ \E c \in Campaigns, ids \in RecipientLists : SyncCampaignRecipients(c, ids)
    \/ \E q \in Reqs : AnyCallback(q)

SpecSync == InitSync /\ [][NextSync]_vars

\* process_campaigns running while tracking requests of every kind are
\* served by one handler
NextFrame ==
    \/ Dispatch(1)
    \/ AnyCallback(1)

SpecFrame == InitSync /\ [][NextFrame]_vars

\* ------------------------------------------------------------ row writes

\* a DateTimeField(null=True) column: None or a time
Stamps == {NULL} \cup {Some(t) : t \in 0..MaxTime}

\* CampaignRecipient.clean(), lines 77-79: raises ValidationError for a row
\* with status SENT and no sent_at
clean(row) == ~(row.status = SENT /\ row.sent_at = NULL)

\* obj.status = status; obj.sent_at = sent_at; obj.save(): Model.save() is
\* not overridden and does not call full_clean(), and the table declares no
\* check constraint, so the row is stored as given
ModelSave(r, status, sent_at) ==
    /\ OpsDone < MaxOps
    /\ r \in DOMAIN rows
    /\ rows' = UpdateRow(r, [status |-> status, sent_at |-> sent_at])
    /\ hist' = [hist EXCEPT !.edits = @ + 1]
    /\ UNCHANGED <<lastId, clock, campaign, auditLog, events, sched, req>>

\* CampaignRecipient.objects.filter(pk=r).update(status=status): an UPDATE
\* statement, which runs no model validation
QuerySetUpdate(r, status) ==
    /\ OpsDone < MaxOps
    /\ r \in DOMAIN rows
    /\ rows' = UpdateRow(r, [status |-> status])
    /\ hist' = [hist EXCEPT !.edits = @ + 1]
    /\ UNCHANGED <<lastId, clock, campaign, auditLog, events, sched, req>>

\* CampaignRecipientAdmin.save_model, lines 118-120: obj.full_clean() raises
\* before the save when clean() does
AdminSaveModel(r, status, sent_at) ==
    /\ OpsDone < MaxOps
    /\ r \in DOMAIN rows
    /\ IF clean([status |-> status, sent_at |-> sent_at])
       THEN /\ rows' = UpdateRow(r, [status |-> status, sent_at |-> sent_at])
            /\ hist' = [hist EXCEPT !.edits = @ + 1]
       ELSE /\ rows' = rows
            /\ hist' = [hist EXCEPT !.edits = @ + 1, !.rejected = @ + 1]
    /\ UNCHANGED <<lastId, clock, campaign, auditLog, events, sched, req>>

\* the three ways code and operators write a CampaignRecipient
NextWrites ==
    \/ \E r \in Rows, status \in Status, sent_at \in Stamps :
          ModelSave(r, status, sent_at)
    \/ \E r \in Rows, status \in Status : QuerySetUpdate(r, status)
    \/ \E r \in Rows, status \in Status, sent_at \in Stamps :
          AdminSaveModel(r, status, sent_at)

SpecWrites == InitSync /\ [][NextWrites]_vars

\* ----------------------------------------------------------- event payload

\* what _get_client_ip(request) can return: None (written "None"), an empty
\* string, text that is not an address, an IPv4 and an IPv6 address
NoAddress == "None"
ClientIps == {NoAddress, "", "unknown", "203.0.113.7", "2001:db8::1"}

\* ipaddress.ip_address(ip_value) returns (does not raise ValueError)
IsAddress(ip_value) == ip_value \in {"203.0.113.7", "2001:db8::1"}

\* truncate_ip, lines 100-111
truncate_ip(ip_value) ==
    IF ip_value \in {NoAddress, ""} THEN ""
    ELSE IF ~IsAddress(ip_value) THEN ""
    ELSE IF ip_value = "203.0.113.7" THEN "203.0.113.0/24"
    ELSE "2001:db8::/48"

\* settings.IP_HASH_SALT
IP_HASH_SALT == "salt"

\* hash_ip, lines 114-119: the digest is written as the text it is taken of
hash_ip(ip_value) ==
    IF ip_value \in {NoAddress, ""} THEN ""
    ELSE "sha256(" \o IP_HASH_SALT \o ":" \o ip_value \o ")"

\* _build_event_payload, lines 57-60: the address columns of the event
EventPayload(client_ip) ==
    [ip_address_truncated |-> truncate_ip(client_ip),
     ip_hash |-> hash_ip(client_ip)]

\* track_open, lines 78-84, with the address columns of the stored event
TrackOpenLookup(q, token, client_ip) ==
    /\ req[q].pc = "idle"
    /\ FirstIdleReq(q)
    /\ OpsDone < MaxOps
    /\ Matching(token) # {}
    /\ \E pk \in Matching(token) :
         LET payload == EventPayload(client_ip) IN
         /\ req' = [req EXCEPT ![q] =
                       [pc |-> "update", kind |-> "open", cr |-> pk,
                        obj |-> rows[pk], client_ip |-> client_ip,
                        payload |-> payload]]
         /\ events' = events (+) SetToBag(
               {[recipient |-> pk, event_type |-> "open",
                 ip_address_truncated |-> payload.ip_address_truncated,
                 ip_hash |-> payload.ip_hash]})
    /\ hist' = [hist EXCEPT !.callbacks = @ + 1]
    /\ UNCHANGED <<lastId, clock, campaign, rows, auditLog, sched>>

\* open callbacks from clients with any address
NextPayload ==
    \E q \in Reqs :
        \/ \E ip \in ClientIps : TrackOpenLookup(q, 1, ip)
        \/ TrackOpenUpdate(q)

SpecPayload == InitSync /\ [][NextPayload]_vars

\* -------------------------------------------------------------- user agent

\* the words a User-Agent header is made of here, in the case clients send
UAWords == {"Mozilla", "iPad", "TABLET", "iPhone", "Android", "Mobile"}

\* every header value: up to MaxWords different words in some order
UserAgents == UNION {Arrangements(UAWords, k) : k \in 0..MaxWords}

\* str.lower() of a word
Lower(word) ==
    CASE word = "Mozilla" -> "mozilla"
      [] word = "iPad" -> "ipad"
      [] word = "TABLET" -> "tablet"
      [] word = "iPhone" -> "iphone"
      [] word = "Android" -> "android"
      [] word = "Mobile" -> "mobile"

\* _normalize_contains(value, *needles), lines 20-22
normalize_contains(value, needles) ==
    \E i \in DOMAIN value : Lower(value[i]) \in needles

\* faulty variant: the mobile rule is tested before the tablet rule
parse_user_agent_mobile_first(user_agent) ==
    IF normalize_contains(user_agent, {"iphone", "android", "mobile"})
    THEN [device_type |-> "mobile"]
    ELSE IF normalize_contains(user_agent, {"ipad", "tablet"})
    THEN [device_type |-> "tablet"]
    ELSE IF user_agent # <<>> THEN [device_type |-> "desktop"]
    ELSE [device_type |-> "unknown"]

\* parse_user_agent, lines 25-33: the device_type of the signals
parse_user_agent(user_agent) ==
    IF normalize_contains(user_agent, {"ipad", "tablet"})
    THEN [device_type |-> "tablet"]
    ELSE IF normalize_contains(user_agent, {"iphone", "android", "mobile"})
    THEN [device_type |-> "mobile"]
    ELSE IF user_agent # <<>> THEN [device_type |-> "desktop"]
    ELSE [device_type |-> "unknown"]

\* a tracking request arrives: request.META.get("HTTP_USER_AGENT", ""),
\* line 55
ReceiveUserAgent(q, user_agent) ==
    /\ req[q].pc = "idle"
    /\ req' = [req EXCEPT ![q] = [pc |-> "received", kind |-> "", cr |-> 0,
                                  obj |-> NewRow, user_agent |-> user_agent]]
    /\ UNCHANGED <<lastId, clock, campaign, rows, auditLog, events, sched, hist>>

\* signals = parse_user_agent(user_agent), line 56
ParseUserAgent(q) ==
    /\ req[q].pc = "received"
    /\ req' = [req EXCEPT ![q] =
                  [pc |-> "parsed", kind |-> "", cr |-> 0, obj |-> NewRow,
                   user_agent |-> req[q].user_agent,
                   signals |-> parse_user_agent(req[q].user_agent)]]
    /\ UNCHANGED <<lastId, clock, campaign, rows, auditLog, events, sched, hist>>

NextAgent ==
    \/ \E user_agent \in UserAgents : ReceiveUserAgent(1, user_agent)
    \/ ParseUserAgent(1)

SpecAgent == InitSync /\ [][NextAgent]_vars

\* ------------------------------------------------------------- criticality

\* the labels of _criticality_label, written without their accents
CRITICA == "Critica"
ALTA == "Alta"
MEDIA == "Media"
BAJA == "Baja"
SIN_SENALES == "Sin senales"

\* faulty variant: the submit attempt is tested before the report
criticality_label_submit_first(recipient) ==
    IF recipient.submit_attempted THEN ALTA
    ELSE IF recipient.reported_at # NULL THEN CRITICA
    ELSE IF recipient.cta_click_count # 0 \/ recipient.landing_view_count # 0
         THEN MEDIA
    ELSE IF recipient.opened_at # NULL \/ recipient.open_seen_at # NULL
         THEN BAJA
    ELSE SIN_SENALES

\* _criticality_label(recipient), lines 232-241
criticality_label(recipient) ==
    IF recipient.reported_at # NULL THEN CRITICA
    ELSE IF recipient.submit_attempted THEN ALTA
    ELSE IF recipient.cta_click_count # 0 \/ recipient.landing_view_count # 0
         THEN MEDIA
    ELSE IF recipient.opened_at # NULL \/ recipient.open_seen_at # NULL
         THEN BAJA
    ELSE SIN_SENALES

\* the stored rows a dashboard request can find: every combination of the
\* report, submit and open columns and of counters up to 1, each counter with
\* its first-occurrence timestamp
Snapshots ==
    {ApplyUpdates(CreatedRow(1, 1, 1),
        [reported_at |-> rep, submit_attempted |-> sub,
         submit_attempt_at |-> IF sub THEN Some(0) ELSE NULL,
         cta_click_count |-> cta,
         cta_clicked_at |-> IF cta > 0 THEN Some(0) ELSE NULL,
         landing_view_count |-> lv,
         landing_viewed_at |-> IF lv > 0 THEN Some(0) ELSE NULL,
         click_count |-> cl,
         clicked_at |-> IF cl > 0 THEN Some(0) ELSE NULL,
         opened_at |-> op, open_seen_at |-> seen]) :
     rep \in Stamps, sub \in BOOLEAN, cta \in 0..1, lv \in 0..1, cl \in 0..1,
     op \in Stamps, seen \in Stamps}

InitLabel ==
    /\ clock = 0
    /\ campaign \in {f \in CampaignFixtures : f[1].throttle_per_minute = 1}
    /\ \E snap \in Snapshots :
         rows = [r \in Rows |->
                    IF r = 1 THEN snap
                    ELSE CreatedRow(CampaignOf(r), RecipientOf(r), r)]
    /\ auditLog = EmptyBag
    /\ events = EmptyBag
    /\ sched = [s \in Scheds |-> IdleSched]
    /\ req = [q \in Reqs |-> IdleReq]
    /\ lastId = 3
    /\ hist = InitHist

\* the dashboard view, lines 312-313 and 416-417: the label of a recipient row
LabelRow(q, r) ==
    /\ req[q].pc = "idle"
    /\ FirstIdleReq(q)
    /\ req' = [req EXCEPT ![q] = [pc |-> "labelled", kind |-> "dashboard",
                                  cr |-> r, obj |-> rows[r],
                                  label |-> criticality_label(rows[r])]]
    /\ UNCHANGED <<lastId, clock, campaign, rows, auditLog, events, sched, hist>>

NextLabel ==
    \E q \in Reqs, r \in Rows : LabelRow(q, r)

SpecLabel == InitLabel /\ [][NextLabel]_vars

\* ---------------------------------------------------------------- claims

\* the callbacks of type kind on row r that have completed
Done(r, kind) == CopiesIn([recipient |-> r, event_type |-> kind], hist.done)

\* some handler has read row r for a click and has not yet written its update
ClickInFlight(r) ==
    \E q \in Reqs : req[q].pc = "update" /\ req[q].kind = "click" /\ req[q].cr = r

\* C1: once opened_at of a CampaignRecipient is set, no step changes it, under
\* every interleaving of concurrent open callbacks on the same token.
C1_OpenedAtNeverChanges ==
    [][\A r \in Rows :
          rows[r].opened_at # NULL => rows'[r].opened_at = rows[r].opened_at]_vars

\* C2: open_seen_at is set by the first open callback on a token and keeps that
\* value through every later open callback on the same token.
C2_OpenSeenAtKeepsFirst ==
    [][\A r \in Rows :
          rows[r].open_seen_at # NULL =>
              rows'[r].open_seen_at = rows[r].open_seen_at]_vars

\* C3: when N click callbacks on a token have completed (and none is in
\* flight), the row's click_count is exactly N.
C3_ClickCountExact ==
    \A r \in Rows : ~ClickInFlight(r) => rows[r].click_count = Done(r, "click")

\* the worker is at `return processed`
AtReturn(w) == w.pc = "campaigns" /\ w.todo = <<>>

\* the rows of campaign c the tick of worker w called send_campaign_email for
Attempted(w, c) ==
    {w.log[i].cr : i \in {j \in DOMAIN w.log : CampaignOf(w.log[j].cr) = c}}

Range(seq) == {seq[i] : i \in DOMAIN seq}

Terminal == {SENT, BOUNCED, FAILED}

\* C4: when a tick returns, for each campaign whose window contained the
\* tick's now, delivery was attempted for exactly min(throttle_per_minute,
\* number of pending rows) recipients, every other row that was pending is
\* still pending, and the rows attempted were pending when the tick read them.
C4_ThrottledSlice ==
    LET w == sched[1] IN
    AtReturn(w) =>
        \A c \in Campaigns :
            /\ (campaign[c].start_at <= w.now /\ w.now < campaign[c].end_at)
                  => c \in w.visited
            /\ c \in w.visited =>
                /\ Cardinality(Attempted(w, c)) =
                      Min(campaign[c].throttle_per_minute, Cardinality(w.pend[c]))
                /\ Attempted(w, c) \subseteq w.pend[c]
                /\ \A r \in w.pend[c] \ Attempted(w, c) : rows[r].status = PENDING
                /\ \A i, j \in DOMAIN w.log : w.log[i].cr = w.log[j].cr => i = j

\* C4's case: a tick returns having attempted throttle_per_minute recipients
\* of a campaign that had more pending rows than that
C4_Witness ==
    LET w == sched[1] IN
    /\ AtReturn(w)
    /\ \E c \in w.visited :
        /\ campaign[c].throttle_per_minute >= 1
        /\ Cardinality(w.pend[c]) > campaign[c].throttle_per_minute
        /\ Cardinality(Attempted(w, c)) = campaign[c].throttle_per_minute
        /\ \E r \in w.pend[c] : rows[r].status = PENDING

\* C5: when a tick returns, every recipient it selected was attempted, also
\* those selected after a recipient whose delivery raised, in the same
\* campaign and in later campaigns; each whose delivery succeeded is sent.
C5_FailureIsolated ==
    LET w == sched[1] IN
    AtReturn(w) =>
        /\ \A c \in Campaigns :
              (campaign[c].start_at <= w.now /\ w.now < campaign[c].end_at)
                  => c \in w.visited
        /\ \A c \in w.visited : w.sel[c] = Attempted(w, c)
        /\ \A i \in DOMAIN w.log :
              w.log[i].outcome = "ok" => rows[w.log[i].cr].status = SENT

\* C5's case: in one tick a delivery raised and a later recipient of the
\* same campaign, and one of a later campaign, were delivered and are sent
C5_Witness ==
    LET w == sched[1] IN
    /\ AtReturn(w)
    /\ \E i, j, k \in DOMAIN w.log :
        /\ i < j /\ j < k
        /\ w.log[i].outcome # "ok"
        /\ w.log[j].outcome = "ok" /\ w.log[k].outcome = "ok"
        /\ CampaignOf(w.log[j].cr) = CampaignOf(w.log[i].cr)
        /\ CampaignOf(w.log[k].cr) # CampaignOf(w.log[i].cr)
        /\ rows[w.log[j].cr].status = SENT /\ rows[w.log[k].cr].status = SENT

\* C6: over non-overlapping ticks send_campaign_email is called at most once
\* for each CampaignRecipient, and a row whose status is sent, bounced or
\* failed is in no later tick's slice.
C6_AttemptedAtMostOnce ==
    LET w == sched[1] IN
    /\ \A r \in Rows : hist.attempts[r] <= 1
    /\ \A r \in Rows :
          (rows[r].status \in Terminal /\ r \in Range(w.pending))
              => (w.pc = "auditfail" /\ r = Head(w.pending))

\* C6's case: a second tick has gone through the campaign of a row that an
\* earlier tick sent or bounced, and has returned
C6_Witness ==
    LET w == sched[1] IN
    /\ AtReturn(w)
    /\ hist.ticks >= 2
    /\ \E r \in Rows :
        /\ CampaignOf(r) \in w.visited
        /\ r \notin Range([i \in DOMAIN w.log |-> w.log[i].cr])
        /\ rows[r].status \in Terminal
        /\ hist.attempts[r] = 1

\* C7: in every execution, two overlapping scheduler runs included, a row's
\* status changes only from pending, to sent, bounced or failed; a row that
\* has reached one of these never changes status again.
C7_StatusOnlyLeavesPending ==
    [][\A r \in Rows :
          rows'[r].status # rows[r].status =>
              (rows[r].status = PENDING /\ rows'[r].status \in Terminal)]_vars

\* C8: in every persisted state, also after a crash in the middle of a
\* recipient's send step, a row with status sent has sent_at set.
C8_SentHasSentAt ==
    \A r \in Rows : rows[r].status = SENT => rows[r].sent_at # NULL

\* C8's case: a row's send step was cut by a crash after the message went out
\* (the row stayed pending), a later tick sent it again and committed
C8_Witness ==
    \E r \in Rows :
        /\ hist.attempts[r] >= 2
        /\ rows[r].status = SENT
        /\ rows[r].sent_at # NULL

\* the AuditLog rows with action campaign_email_sent kept for row r
SentAudits(r) == CopiesIn(AuditRow("campaign_email_sent", r, ""), auditLog)

\* the AuditLog rows with action campaign_email_failed kept for row r
FailedAudits(r) ==
    CopiesIn(AuditRow("campaign_email_failed", r, "smtp_error"), auditLog)
    + CopiesIn(AuditRow("campaign_email_failed", r, "hard_bounce"), auditLog)

\* C9: in every persisted state a row has status sent if and only if exactly
\* one campaign_email_sent AuditLog row exists for it.
C9_SentIffOneSentAudit ==
    \A r \in Rows : (rows[r].status = SENT) <=> (SentAudits(r) = 1)

\* C9's case: the worker died inside one row's atomic block, leaving that row
\* pending with no audit row, while another row is sent with its audit row
C9_Witness ==
    \E r1, r2 \in Rows :
        /\ rows[r1].status = SENT /\ SentAudits(r1) = 1
        /\ sched[1].pc = "idle"
        /\ hist.attempts[r2] >= 1
        /\ rows[r2].status = PENDING /\ SentAudits(r2) = 0 /\ FailedAudits(r2) = 0

\* C10: when delivery to a recipient raised, the row's status is failed,
\* unless the transport signalled a hard bounce, and then it is bounced; in
\* both cases one campaign_email_failed AuditLog row carries the error text.
C10_FailedUnlessHardBounce ==
    LET w == sched[1] IN
    AtReturn(w) =>
        \A i \in DOMAIN w.log :
            LET r == w.log[i].cr
                o == w.log[i].outcome
            IN  o # "ok" =>
                  /\ rows[r].status = IF o = "hard_bounce" THEN BOUNCED ELSE FAILED
                  /\ CopiesIn(AuditRow("campaign_email_failed", r, o), auditLog) = 1

\* C11: a request to any of the six tracking views whose token matches no
\* CampaignRecipient is answered with a 404 and changes neither the EmailEvent
\* table nor any CampaignRecipient row.
C11_UnknownTokenWritesNothing ==
    [][\A q \in Reqs, kind \in EventKinds, token \in Tokens :
          (Matching(token) = {} /\ TrackLookup(q, kind, token))
              => /\ hist'.notFound = hist.notFound + 1
                 /\ req' = req
                 /\ events' = events
                 /\ rows' = rows]_vars

\* two requests with an unknown token were answered while row 1 has an event
C11_Witness ==
    /\ hist.notFound = 2
    /\ events # EmptyBag

\* EmailEvent rows of type kind that belong to row r
EventsOf(r, kind) == CopiesIn([recipient |-> r, event_type |-> kind], events)

\* requests of type kind on row r that have stored their event and have not
\* yet returned
InFlight(r, kind) ==
    Cardinality({q \in Reqs : /\ req[q].pc = "update"
                              /\ req[q].kind = kind
                              /\ req[q].cr = r})

\* C12: for every CampaignRecipient and event type, the EmailEvent rows of
\* that type are as many as the valid-token callbacks of that type that have
\* completed (plus those that have stored their event and not yet returned),
\* repeats included, under every interleaving; and no callback step updates
\* or removes an EmailEvent row.
C12_OneEventPerCallback ==
    /\ [](\A r \in Rows, kind \in EventKinds :
            EventsOf(r, kind) = Done(r, kind) + InFlight(r, kind))
    /\ [][\A e \in BagToSet(events) :
            CopiesIn(e, events') >= CopiesIn(e, events)]_vars

\* a click and its repeat have both completed on row 1, another kind too
C12_Witness ==
    /\ Done(1, "click") = 2
    /\ EventsOf(1, "click") = 2
    /\ Done(1, "report") = 1

\* C13: a click handled while the row's sent_at is unset leaves
\* time_to_click_seconds unset, and a report handled while sent_at is unset
\* leaves time_to_report_seconds unset.
C13_NoLatencyWithoutSentAt ==
    [][\A q \in Reqs :
          /\ (TrackClickUpdate(q) /\ rows[req[q].cr].sent_at = NULL)
                => rows'[req[q].cr].time_to_click_seconds = NULL
          /\ (TrackReportUpdate(q) /\ rows[req[q].cr].sent_at = NULL)
                => rows'[req[q].cr].time_to_report_seconds = NULL]_vars

\* row 1 was never sent, was clicked and reported, and has neither latency
C13_Witness ==
    /\ rows[1].sent_at = NULL
    /\ rows[1].clicked_at # NULL
    /\ rows[1].reported_at # NULL
    /\ rows[1].time_to_click_seconds = NULL
    /\ rows[1].time_to_report_seconds = NULL

\* the first-occurrence timestamps and latencies of the funnel after the open
WriteOnceFields ==
    {"clicked_at", "landing_viewed_at", "cta_clicked_at", "submit_attempt_at",
     "reported_at", "time_to_click_seconds", "time_to_report_seconds"}

\* C14: when the callbacks on a token are served one after another, no step
\* changes clicked_at, landing_viewed_at, cta_clicked_at, submit_attempt_at,
\* reported_at, time_to_click_seconds or time_to_report_seconds once set; a
\* callback sets the timestamp of its kind if it was unset; a latency is
\* written only together with its timestamp, as that time minus sent_at; and
\* every click, cta click and landing view raises its counter by one.
C14_WriteOnceInSequence ==
    [][/\ \A r \in Rows, f \in WriteOnceFields :
             rows[r][f] # NULL => rows'[r][f] = rows[r][f]
       /\ \A r \in Rows :
             /\ (rows[r].time_to_click_seconds = NULL
                    /\ rows'[r].time_to_click_seconds # NULL)
                 => /\ rows[r].clicked_at = NULL
                    /\ Val(rows'[r].time_to_click_seconds) =
                          Val(rows'[r].clicked_at) - Val(rows[r].sent_at)
             /\ (rows[r].time_to_report_seconds = NULL
                    /\ rows'[r].time_to_report_seconds # NULL)
                 => /\ rows[r].reported_at = NULL
                    /\ Val(rows'[r].time_to_report_seconds) =
                          Val(rows'[r].reported_at) - Val(rows[r].sent_at)
       /\ TrackClickUpdate(1)
             => /\ rows'[req[1].cr].clicked_at # NULL
                /\ rows'[req[1].cr].click_count = rows[req[1].cr].click_count + 1
       /\ TrackCtaUpdate(1)
             => /\ rows'[req[1].cr].cta_clicked_at # NULL
                /\ rows'[req[1].cr].cta_click_count =
                      rows[req[1].cr].cta_click_count + 1
       /\ TrackLandingUpdate(1)
             => /\ rows'[req[1].cr].landing_viewed_at # NULL
                /\ rows'[req[1].cr].landing_view_count =
                      rows[req[1].cr].landing_view_count + 1
       /\ TrackSubmitUpdate(1) => rows'[req[1].cr].submit_attempt_at # NULL
       /\ TrackReportUpdate(1) => rows'[req[1].cr].reported_at # NULL]_vars

\* row 1, sent at 0, was clicked at 0 and again at 1 and then reported
C14_Witness ==
    /\ rows[1].click_count = 2
    /\ rows[1].clicked_at = Some(0)
    /\ rows[1].time_to_click_seconds = Some(0)
    /\ rows[1].reported_at = Some(1)
    /\ rows[1].time_to_report_seconds = Some(1)

\* the handlers that hold a computed criticality label
Labelled == {q \in Reqs : req[q].pc = "labelled"}

\* C15: every recipient row whose reported_at is set is labelled "Critica",
\* whatever its submit_attempted, counters and open timestamps.
C15_ReportedIsCritical ==
    \A q \in Labelled :
        req[q].obj.reported_at # NULL => req[q].label = CRITICA

\* a reported row with a submit attempt, a cta click and an open was labelled
C15_Witness ==
    \E q \in Labelled :
        /\ req[q].obj.reported_at # NULL
        /\ req[q].obj.submit_attempted
        /\ req[q].obj.cta_click_count > 0
        /\ req[q].obj.opened_at # NULL
        /\ req[q].label = CRITICA

\* the priority table with click_count among the Medium signals
PriorityTable(recipient) ==
    IF recipient.reported_at # NULL THEN CRITICA
    ELSE IF recipient.submit_attempted THEN ALTA
    ELSE IF \/ recipient.cta_click_count > 0
            \/ recipient.landing_view_count > 0
            \/ recipient.click_count > 0
         THEN MEDIA
    ELSE IF recipient.opened_at # NULL \/ recipient.open_seen_at # NULL
         THEN BAJA
    ELSE SIN_SENALES

\* C16: the label of every recipient row is the first match of: reported ->
\* "Critica"; submit_attempted -> "Alta"; cta_click_count, landing_view_count
\* or click_count above 0 -> "Media"; opened_at or open_seen_at set -> "Baja";
\* else "Sin senales".
C16_LabelIsPriorityTable ==
    \A q \in Labelled : req[q].label = PriorityTable(req[q].obj)

\* C17: a tick attempts delivery only for recipients of campaigns whose
\* half-open window contains the tick's now: start_at <= now < end_at.
C17_HalfOpenWindow ==
    LET w == sched[1] IN
    \A i \in DOMAIN w.log :
        LET c == rows[w.log[i].cr].campaign IN
        campaign[c].start_at <= w.now /\ w.now < campaign[c].end_at

\* C18: the EmailEvent table is append-only over dispatch ticks, tracking
\* callbacks and recipient-list changes: no step removes or alters a stored
\* event.
C18_EventLogAppendOnly ==
    [][\A e \in BagToSet(events) :
          /\ e \in BagToSet(events')
          /\ CopiesIn(e, events') >= CopiesIn(e, events)]_vars

\* the rows of the pair (c, rcp)
RowsOfPair(c, rcp) ==
    {pk \in DOMAIN rows : rows[pk].campaign = c /\ rows[pk].recipient = rcp}

\* C19: the token a (campaign, recipient) pair was given when it was first
\* created is the pair's token in every later state: it still resolves to a
\* row, and that row is the pair's.
C19_TokenIsStable ==
    \A c \in Campaigns, rcp \in Recipients :
        \A token \in hist.issued[<<c, rcp>>] :
            /\ Matching(token) # {}
            /\ \A pk \in RowsOfPair(c, rcp) : rows[pk].tracking_token = token

\* C20: no two CampaignRecipient rows have the same (campaign, recipient);
\* creating a row for a pair that has one is rejected and leaves the table as
\* it was; and a sync leaves the rows of the pairs it keeps as they were.
C20_OneRowPerPair ==
    /\ [](\A c \in Campaigns, rcp \in Recipients :
            Cardinality(RowsOfPair(c, rcp)) <= 1)
    /\ [][\A c \in Campaigns, rcp \in Recipients :
            (RowsOfPair(c, rcp) # {} /\ CreateRecipient(c, rcp))
                => /\ rows' = rows
                   /\ hist'.rejected = hist.rejected + 1]_vars
    /\ [][\A c \in Campaigns, ids \in RecipientLists :
            SyncCampaignRecipients(c, ids)
                => \A i \in DOMAIN ids :
                      \A pk \in RowsOfPair(c, ids[i]) :
                          pk \in DOMAIN rows' /\ rows'[pk] = rows[pk]]_vars

\* a duplicate create was rejected, and a sync listing both recipients ran on
\* campaign 2, which had a row for one of them: all four pairs have one row
C20_Witness ==
    /\ hist.rejected = 1
    /\ lastId = 4
    /\ RowsOfPair(2, 1) = {3}
    /\ RowsOfPair(2, 2) = {4}
    /\ hist.edits = 2

\* C21: a write that would leave a CampaignRecipient stored with status sent
\* and no sent_at is rejected and leaves the stored row as it was, whether it
\* is a model save, a queryset update or an admin edit.
C21_SentWithoutSentAtRejected ==
    [][\A r \in Rows :
          (rows'[r].status = SENT /\ rows'[r].sent_at = NULL)
              => rows'[r] = rows[r]]_vars

\* the handlers that hold the payload of the event they stored
WithPayload == {q \in Reqs : req[q].pc = "update" /\ req[q].kind = "open"}

\* C22: for a client address that is absent or is not an IP address,
\* truncate_ip and hash_ip both give "" and the callback stores its event.
C22_BadAddressGivesEmpty ==
    \A q \in WithPayload :
        ~IsAddress(req[q].client_ip)
            => /\ req[q].payload.ip_address_truncated = ""
               /\ req[q].payload.ip_hash = ""
               /\ \E e \in BagToSet(events) :
                     /\ e.recipient = req[q].cr
                     /\ e.ip_address_truncated = ""
                     /\ e.ip_hash = ""

\* the header has a word that, in lower case, is one of the keywords
HasKeyword(user_agent, keywords) ==
    \E i \in 1..Len(user_agent) : Lower(user_agent[i]) \in keywords

\* C23: a user-agent with a tablet keyword (ipad, tablet; any case) is
\* classified tablet even when it also has a mobile keyword (iphone, android,
\* mobile); without a tablet keyword and with a mobile one it is mobile; the
\* empty one is unknown; any other is desktop.
C23_TabletBeforeMobile ==
    \A q \in Reqs :
        req[q].pc = "parsed" =>
            LET ua == req[q].user_agent
                tablet == HasKeyword(ua, {"ipad", "tablet"})
                mobile == HasKeyword(ua, {"iphone", "android", "mobile"})
            IN req[q].signals.device_type =
                 IF tablet THEN "tablet"
                 ELSE IF mobile THEN "mobile"
                 ELSE IF ua = <<>> THEN "unknown"
                 ELSE "desktop"

\* "Mozilla iPad Mobile" was classified tablet
C23_Witness ==
    /\ req[1].pc = "parsed"
    /\ req[1].user_agent = <<"Mozilla", "iPad", "Mobile">>
    /\ req[1].signals.device_type = "tablet"

\* C24: the rows a tick selects for a campaign are the earliest-inserted
\* pending ones: when the tick returns, no row it attempted has a row of the
\* same campaign with a smaller key that was pending and was left unattempted.
C24_EarliestPendingFirst ==
    LET w == sched[1] IN
    AtReturn(w) =>
        \A c \in w.visited :
            \A r \in Attempted(w, c) :
                \A earlier \in w.pend[c] :
                    earlier < r => earlier \in Attempted(w, c)

\* C25: when two runs of process_campaigns overlap, no recipient has a
\* message delivered more than once.
C25_NoDoubleSend ==
    \A r \in Rows : SentAudits(r) <= 1

\* C26: every state change made by callbacks is backed by an event, also
\* after a callback was cut short between its two steps: for each row and
\* kind there are at least as many EmailEvent rows as updates applied, and a
\* counter, flag or timestamp of a kind is set only if an event of the kind
\* exists.
C26_UpdateBackedByEvent ==
    \A r \in Rows :
        /\ \A kind \in EventKinds : EventsOf(r, kind) >= Done(r, kind)
        /\ rows[r].opened_at # NULL => EventsOf(r, "open") >= 1
        /\ rows[r].click_count > 0 => EventsOf(r, "click") >= 1
        /\ rows[r].cta_click_count > 0 => EventsOf(r, "cta_click") >= 1
        /\ rows[r].landing_view_count > 0 => EventsOf(r, "landing_view") >= 1
        /\ rows[r].submit_attempted => EventsOf(r, "submit_attempt") >= 1
        /\ rows[r].reported_at # NULL => EventsOf(r, "report") >= 1

\* a click was cut short (its event is stored, click_count is still 0) and a
\* submit attempt completed
C26_Witness ==
    /\ hist.aborted = 1
    /\ EventsOf(1, "click") = 1
    /\ rows[1].click_count = 0
    /\ \A q \in Reqs : req[q].pc = "idle"
    /\ rows[1].submit_attempted
    /\ EventsOf(1, "submit_attempt") = 1

\* the AuditLog rows with action campaign_email_failed kept for row r,
\* whatever their error text
FailedAuditsAnyError(r) ==
    Cardinality({a \in BagToSet(auditLog) :
                    /\ a.action = "campaign_email_failed"
                    /\ a.campaign_recipient_id = r})

\* C27: in every state the store is left in when no tick is running, also
\* after a crash between the status write and the audit write of the failure
\* step, a row has status bounced or failed iff it has a campaign_email_failed
\* audit row, and no row has both a campaign_email_sent and a
\* campaign_email_failed audit row.
C27_FailureStepAtomic ==
    sched[1].pc = "idle" =>
        \A r \in Rows :
            /\ rows[r].status \in {BOUNCED, FAILED} <=> FailedAuditsAnyError(r) >= 1
            /\ ~(SentAudits(r) >= 1 /\ FailedAuditsAnyError(r) >= 1)

\* C28: under any interleaving of callbacks, each counter agrees with its
\* first-occurrence timestamp: click_count > 0 iff clicked_at is set,
\* landing_view_count > 0 iff landing_viewed_at is set, cta_click_count > 0
\* iff cta_clicked_at is set, submit_attempted iff submit_attempt_at is set,
\* and time_to_click_seconds set implies clicked_at and sent_at set.
C28_CountersMatchTimestamps ==
    \A r \in Rows :
        /\ rows[r].click_count > 0 <=> rows[r].clicked_at # NULL
        /\ rows[r].landing_view_count > 0 <=> rows[r].landing_viewed_at # NULL
        /\ rows[r].cta_click_count > 0 <=> rows[r].cta_clicked_at # NULL
        /\ rows[r].submit_attempted <=> rows[r].submit_attempt_at # NULL
        /\ rows[r].time_to_click_seconds # NULL
              => rows[r].clicked_at # NULL /\ rows[r].sent_at # NULL

\* two overlapping clicks completed on row 1 (one increment was lost) and a
\* cta click completed
C28_Witness ==
    /\ Done(1, "click") = 2
    /\ rows[1].click_count = 1
    /\ rows[1].clicked_at # NULL
    /\ rows[1].time_to_click_seconds # NULL
    /\ rows[1].cta_click_count = 1
    /\ rows[1].cta_clicked_at # NULL

\* the columns of row r whose value a step changes
Changed(r) == {f \in DOMAIN rows[r] : rows'[r][f] # rows[r][f]}

\* the engagement columns that belong to each tracking view
OwnFields(kind) ==
    CASE kind = "open" -> {"opened_at", "open_seen_at"}
      [] kind = "click" -> {"clicked_at", "click_count", "time_to_click_seconds"}
      [] kind = "cta_click" -> {"cta_clicked_at", "cta_click_count"}
      [] kind = "submit_attempt" -> {"submit_attempted", "submit_attempt_at"}
      [] kind = "report" ->
            {"reported_at", "report_channel", "time_to_report_seconds"}
      [] kind = "landing_view" -> {"landing_viewed_at", "landing_view_count"}
      [] OTHER -> {}

\* C29: a dispatcher step changes only status and sent_at of a row; a
\* callback step changes only the engagement columns of its own kind on the
\* row it looked up, never status, sent_at or tracking_token; so neither
\* write undoes the other when the two interleave.
C29_WritesAreDisjoint ==
    [][\A r \in Rows :
          /\ sched' # sched => Changed(r) \subseteq {"status", "sent_at"}
          /\ req' # req =>
                Changed(r) \subseteq
                    (IF r = req[1].cr THEN OwnFields(req[1].kind) ELSE {})]_vars

\* a click whose row was read before the delivery and written after it: the
\* row keeps the dispatcher's status and sent_at and the callback's click
C29_Witness ==
    /\ rows[1].status = SENT
    /\ rows[1].sent_at = Some(0)
    /\ rows[1].clicked_at = Some(1)
    /\ rows[1].click_count = 1
    /\ rows[1].time_to_click_seconds = NULL

CeilDiv(n, t) == (n + t - 1) \div t

\* the rows of campaign c inserted at or before row r (all of them pending
\* before the first tick)
AtOrBefore(c, r) == {p \in Rows : CampaignOf(p) = c /\ p <= r}

\* C30: for a campaign with throttle_per_minute >= 1 whose window has
\* contained every tick so far, when the k-th tick returns every row with n
\* pending rows at or before it and ceil(n / throttle_per_minute) <= k is
\* sent or bounced, whatever deliveries succeeded or raised; for a campaign
\* with throttle_per_minute = 0 delivery is never attempted.
C30_DrainsInOrder ==
    LET w == sched[1] IN
    \A c \in Campaigns :
        /\ (/\ AtReturn(w)
            /\ campaign[c].throttle_per_minute >= 1
            /\ campaign[c].start_at = 0 /\ w.now < campaign[c].end_at)
              => \A r \in Rows :
                    (/\ CampaignOf(r) = c
                     /\ CeilDiv(Cardinality(AtOrBefore(c, r)),
                                campaign[c].throttle_per_minute) <= hist.ticks)
                        => rows[r].status \in {SENT, BOUNCED}
        /\ campaign[c].throttle_per_minute = 0
              => \A r \in Rows : CampaignOf(r) = c => hist.attempts[r] = 0

====
